---- MODULE Spec2Model ----
(***************************************************************************)
(* Model of backend/app/agents/runtime.py: CancellationToken,              *)
(* AgentContext, AgentRuntime.run, AgentRuntime.stream and the session     *)
(* helpers register_session / cancel_session / cleanup_session.            *)
(*                                                                         *)
(* Tokens are heap objects with identity (1..allocated); a context or the  *)
(* session map holds a token by reference.  The async generator stream()   *)
(* is cut at its yield points and at the awaits on the executor; run() is  *)
(* cut at its awaits.  The session helpers are cut between the membership  *)
(* test and the dictionary access, the grain at which callers on different *)
(* threads interleave.                                                     *)
(*                                                                         *)
(* Exceptions are the ones the called code raises (ValueError, ImportError *)
(* from the model router, RuntimeError from the cancellation check, and    *)
(* any other Exception subclass from retrieval or the executor).           *)
(***************************************************************************)
EXTENDS Integers, Sequences, FiniteSets, TLC

\* ---------------------------------------------------------------- bounds
MaxTokens == 3          \* CancellationToken objects ever constructed
MaxSteps  == 2          \* events the executor's astream produces in one run

SessionIds == {1, 2}
Threads    == {1, 2}
EventData  == {"a", "b"}

NoToken  == 0
TokenIds == 1..MaxTokens

\* exception classes raised by the code under the try blocks
BuildErrors   == {"ValueError", "ImportError"}
PrepareErrors == {"Exception"}
ExecErrors    == {"Exception"}
NoExc         == "none"

NoneVal      == "None"
GenProviders == {"p1", "p2"}
RThreads     == {1, 2}

VARIABLES
    cancelled,        \* token id -> CancellationToken._cancelled
    allocated,        \* number of tokens constructed so far
    cancelCalled,     \* history: tokens on which cancel() has been called
    lastOp,           \* history: the last token method call and its result
    active_sessions,  \* AgentRuntime._active_sessions: session id -> token
    thr,              \* per thread: position inside a session helper
    ctx_token,        \* AgentContext.cancellation_token
    rag_enabled,      \* agent_config: rag_enabled with knowledge_base_ids
    mode,             \* "none" | "ctx" | "run" | "stream"
    pc,               \* position of the run / stream body
    events,           \* events the stream has yielded, in order
    produced,         \* events the executor's astream has produced
    execSteps,        \* executor steps (astream / ainvoke) started
    built,            \* _build_agent returned an executor
    retrieved,        \* rag_pipeline.retrieve was called
    result,           \* value returned by run
    escaped,          \* exception that left run / stream, or NoExc
    cancelSeenAt,     \* history: checkpoint whose is_cancelled() was true
    raisedIn,         \* history: place where an exception was raised
    cancelledAtCall,  \* history: token state when run() was called
    api_keys,         \* providers whose PROVIDERS entry has an api_key
    ranked,           \* model names present in the router's ranking tables
    model_cache,      \* ModelRouter._model_cache: cache key -> client
    clients,          \* client objects constructed so far, in order
    rthr,             \* per thread: position inside get_model
    sel,              \* last application of a selection policy
    rag_call,         \* last call of RAGPipeline.retrieve
    issued,           \* history: session id -> tokens register_session
                      \*   returned for it since its last cleanup
    ctx_session,      \* AgentContext.session_id (0 for None)
    ctx_own,          \* history: the context constructed its own token
    permissions,      \* ToolRegistry._permissions: tool -> list of users
    granted,          \* history: tools grant_permission was called on
    tool_last,        \* history: the last ToolRegistry call and its result
    prep,             \* last call of AgentRuntime._prepare_input
    run_out,          \* last executor result and what run returned for it
    index_chunks,     \* vector index: namespace -> number of chunks stored
    ingest_out        \* last call of ingest_file / ingest_text

tokenVars   == <<cancelled, allocated, cancelCalled, lastOp>>
sessionVars == <<active_sessions, thr, issued>>
taskVars    == <<ctx_token, rag_enabled, mode, pc, events, produced,
                 execSteps, built, retrieved, result, escaped,
                 cancelSeenAt, raisedIn, cancelledAtCall>>
routerVars  == <<api_keys, ranked, model_cache, clients, rthr>>
ctxVars     == <<ctx_session, ctx_own>>
toolVars    == <<permissions, granted, tool_last>>
auxVars     == <<toolVars, prep, run_out, index_chunks, ingest_out>>
extVars     == <<api_keys, ranked, model_cache, clients, rthr, sel, rag_call,
                 ctxVars, auxVars>>
vars        == <<cancelled, allocated, cancelCalled, lastOp,
                 active_sessions, thr,
                 ctx_token, rag_enabled, mode, pc, events, produced,
                 execSteps, built, retrieved, result, escaped,
                 cancelSeenAt, raisedIn, cancelledAtCall,
                 api_keys, ranked, model_cache, clients, rthr, sel, rag_call,
                 issued, ctx_session, ctx_own, permissions, granted,
                 tool_last, prep, run_out, index_chunks, ingest_out>>

\* ------------------------------------------------------ CancellationToken
NoOp == [op |-> "none", token |-> NoToken, result |-> FALSE]

token_init == FALSE

cancel_toggles(flag) == ~flag

cancel(flag) == TRUE

is_cancelled(flag) == flag

\* CancellationToken(): a fresh object
CancellationToken_new ==
    /\ allocated < MaxTokens
    /\ allocated' = allocated + 1
    /\ cancelled' = [cancelled EXCEPT ![allocated + 1] = token_init]
    /\ lastOp' = NoOp
    /\ UNCHANGED <<cancelCalled, sessionVars, taskVars, extVars>>

\* token.cancel() by any holder of the token
TokenCancel(t) ==
    /\ t \in 1..allocated
    /\ cancelled' = [cancelled EXCEPT ![t] = cancel(cancelled[t])]
    /\ cancelCalled' = cancelCalled \cup {t}
    /\ lastOp' = [op |-> "cancel", token |-> t, result |-> FALSE]
    /\ UNCHANGED <<allocated, sessionVars, taskVars, extVars>>

\* token.is_cancelled() by any holder of the token
TokenIsCancelled(t) ==
    /\ t \in 1..allocated
    /\ lastOp' = [op |-> "is_cancelled", token |-> t,
                  result |-> is_cancelled(cancelled[t])]
    /\ UNCHANGED <<cancelled, allocated, cancelCalled, sessionVars, taskVars, extVars>>

\* -------------------------------------------------------------------- Init
EmptyMap == [s \in {} |-> NoToken]

IdleThread == [pc |-> "idle", op |-> "none", sid |-> 0, ret |-> NoToken]

NoResult == [returned |-> FALSE, success |-> FALSE, error |-> NoExc]

RuntimeInit ==
    /\ cancelled = [t \in TokenIds |-> FALSE]
    /\ allocated = 0
    /\ cancelCalled = {}
    /\ lastOp = NoOp
    /\ active_sessions = EmptyMap
    /\ thr = [th \in Threads |-> IdleThread]
    /\ ctx_token = NoToken
    /\ rag_enabled = FALSE
    /\ mode = "none"
    /\ pc = "none"
    /\ events = <<>>
    /\ produced = <<>>
    /\ execSteps = 0
    /\ built = FALSE
    /\ retrieved = FALSE
    /\ result = NoResult
    /\ escaped = NoExc
    /\ cancelSeenAt = "none"
    /\ raisedIn = "none"
    /\ cancelledAtCall = FALSE
    /\ issued = [s \in SessionIds |-> {}]
    /\ ctx_session = 0
    /\ ctx_own = FALSE

\* ModelRouter.__init__: an empty cache; no call in progress
EmptyCache == [k \in {} |-> 0]

\* a client object: the key it was built for, which construction for that
\* key it is (its identity), and the parameters it was built with
NoClient == [key |-> <<NoneVal, NoneVal>>, serial |-> 0, params |-> "none"]

IdleCall ==
    [pc |-> "idle", provider |-> NoneVal, model |-> NoneVal,
     strategy |-> "cost", params |-> "none", key |-> <<NoneVal, NoneVal>>,
     made |-> NoClient, ret |-> NoClient, exc |-> NoExc]

NoSelection ==
    [strategy |-> "none", providers |-> <<>>,
     models |-> [p \in GenProviders |-> <<>>],
     table |-> [m \in {} |-> 0], result |-> <<NoneVal, NoneVal>>]

\* an optional number is <<>> for None and <<n>> for the number n
NoRetrieve ==
    [called |-> FALSE, index |-> <<>>, k |-> <<>>, threshold |-> <<>>,
     raised |-> FALSE, out |-> <<>>]

RouterIdle ==
    /\ api_keys = {}
    /\ ranked = {}
    /\ model_cache = EmptyCache
    /\ clients = EmptyCache
    /\ rthr = [th \in RThreads |-> IdleCall]

\* ToolRegistry.__init__, and no call made yet of the functions below
NoToolOp == [op |-> "none", tool |-> NoneVal, user |-> NoneVal,
             result |-> FALSE]

NoPrepare ==
    [called |-> FALSE, rag_enabled |-> FALSE, kb_ids |-> 0,
     namespaces |-> <<>>, retrieve_called |-> FALSE, results |-> <<>>, prepended |-> FALSE,
     metadata |-> {}, rag_results |-> <<>>]

NoRunOut ==
    [called |-> FALSE, plan |-> <<>>, max_iterations |-> 0,
     invoked |-> <<>>, stopped |-> "none", success |-> FALSE,
     response |-> "", tools_used |-> <<>>, error |-> NoExc]

NoIngest ==
    [op |-> "none", namespace |-> 0, failure |-> NoExc, returned |-> FALSE,
     success |-> FALSE, total_chunks |-> 0, error |-> NoExc,
     raised |-> NoExc]

AuxIdle ==
    /\ permissions = EmptyCache
    /\ granted = {}
    /\ tool_last = NoToolOp
    /\ prep = NoPrepare
    /\ run_out = NoRunOut
    /\ index_chunks = EmptyCache
    /\ ingest_out = NoIngest

Init ==
    /\ RuntimeInit
    /\ RouterIdle
    /\ sel = NoSelection
    /\ rag_call = NoRetrieve
    /\ AuxIdle

\* --------------------------------------------------------- session helpers
InCall(th) == thr[th].pc \in {"cancel_lookup", "cleanup_del"}

\* self._active_sessions[session_id] = token
store_session_dropped(map, sid, tok) == map

store_session(map, sid, tok) ==
    [s \in (DOMAIN map) \cup {sid} |-> IF s = sid THEN tok ELSE map[s]]

\* del self._active_sessions[session_id]
del_session(map, sid) == [s \in (DOMAIN map) \ {sid} |-> map[s]]

\* register_session: construct a token, store it under the id, return it
register_session(th, sid) ==
    /\ ~InCall(th)
    /\ allocated < MaxTokens
    /\ allocated' = allocated + 1
    /\ cancelled' = [cancelled EXCEPT ![allocated + 1] = token_init]
    /\ active_sessions' = store_session(active_sessions, sid, allocated + 1)
    /\ thr' = [thr EXCEPT ![th] = [pc |-> "returned", op |-> "register",
                                   sid |-> sid, ret |-> allocated + 1]]
    /\ issued' = [issued EXCEPT ![sid] = @ \cup {allocated + 1}]
    /\ lastOp' = NoOp
    /\ UNCHANGED <<cancelCalled, taskVars, extVars>>

\* cancel_session, first half: if session_id in self._active_sessions
cancel_session_test(th, sid) ==
    /\ ~InCall(th)
    /\ thr' = [thr EXCEPT ![th] =
                 [pc |-> IF sid \in DOMAIN active_sessions
                         THEN "cancel_lookup" ELSE "returned",
                  op |-> "cancel", sid |-> sid, ret |-> NoToken]]
    /\ UNCHANGED <<tokenVars, active_sessions, issued, taskVars, extVars>>

\* cancel_session, second half: self._active_sessions[session_id].cancel()
\* (the subscript raises KeyError when the id has been removed meanwhile)
cancel_session_lookup(th) ==
    /\ thr[th].pc = "cancel_lookup"
    /\ IF thr[th].sid \in DOMAIN active_sessions
       THEN LET t == active_sessions[thr[th].sid] IN
            /\ cancelled' = [cancelled EXCEPT ![t] = cancel(cancelled[t])]
            /\ cancelCalled' = cancelCalled \cup {t}
            /\ lastOp' = [op |-> "cancel", token |-> t, result |-> FALSE]
            /\ thr' = [thr EXCEPT ![th].pc = "returned"]
       ELSE /\ thr' = [thr EXCEPT ![th].pc = "raised"]
            /\ UNCHANGED <<cancelled, cancelCalled, lastOp>>
    /\ UNCHANGED <<allocated, active_sessions, issued, taskVars, extVars>>

\* cleanup_session, first half: if session_id in self._active_sessions
cleanup_session_test(th, sid) ==
    /\ ~InCall(th)
    /\ thr' = [thr EXCEPT ![th] =
                 [pc |-> IF sid \in DOMAIN active_sessions
                         THEN "cleanup_del" ELSE "returned",
                  op |-> "cleanup", sid |-> sid, ret |-> NoToken]]
    /\ UNCHANGED <<tokenVars, active_sessions, issued, taskVars, extVars>>

\* cleanup_session, second half: del self._active_sessions[session_id]
\* (del raises KeyError when the id has been removed meanwhile)
cleanup_session_del(th) ==
    /\ thr[th].pc = "cleanup_del"
    /\ IF thr[th].sid \in DOMAIN active_sessions
       THEN /\ active_sessions' = del_session(active_sessions, thr[th].sid)
            /\ issued' = [issued EXCEPT ![thr[th].sid] = {}]
            /\ thr' = [thr EXCEPT ![th].pc = "returned"]
       ELSE /\ thr' = [thr EXCEPT ![th].pc = "raised"]
            /\ UNCHANGED <<active_sessions, issued>>
    /\ UNCHANGED <<tokenVars, taskVars, extVars>>

NextSessions ==
    \/ CancellationToken_new
    \/ \E t \in TokenIds : TokenCancel(t)
    \/ \E t \in TokenIds : TokenIsCancelled(t)
    \/ \E th \in Threads, sid \in SessionIds : register_session(th, sid)
    \/ \E th \in Threads, sid \in SessionIds : cancel_session_test(th, sid)
    \/ \E th \in Threads : cancel_session_lookup(th)
    \/ \E th \in Threads, sid \in SessionIds : cleanup_session_test(th, sid)
    \/ \E th \in Threads : cleanup_session_del(th)

SpecSessions == Init /\ [][NextSessions]_vars

\* ------------------------------------------------------------ AgentContext
\* AgentContext.__init__: cancellation_token or CancellationToken().
\* explicit = NoToken stands for the argument left at None.
AgentContext_init(explicit, session_id, rag) ==
    /\ mode = "none" \/ pc = "done"
    /\ ctx_session' = session_id
    /\ ctx_own' = (explicit = NoToken)
    /\ IF explicit = NoToken
       THEN /\ allocated < MaxTokens
            /\ allocated' = allocated + 1
            /\ cancelled' = [cancelled EXCEPT ![allocated + 1] = token_init]
            /\ ctx_token' = allocated + 1
       ELSE /\ explicit \in 1..allocated
            /\ ctx_token' = explicit
            /\ UNCHANGED <<allocated, cancelled>>
    /\ rag_enabled' = rag
    /\ mode' = "ctx"
    /\ pc' = "none"
    /\ events' = <<>>
    /\ produced' = <<>>
    /\ execSteps' = 0
    /\ built' = FALSE
    /\ retrieved' = FALSE
    /\ result' = NoResult
    /\ escaped' = NoExc
    /\ cancelSeenAt' = "none"
    /\ raisedIn' = "none"
    /\ cancelledAtCall' = FALSE
    /\ lastOp' = NoOp
    /\ UNCHANGED <<cancelCalled, sessionVars, routerVars, sel, rag_call,
                   auxVars>>

\* ------------------------------------------------------ AgentRuntime.stream
Ev(name, data) == [event |-> name, data |-> data]

EvStart     == Ev("agent_start", "session")
EvFinish    == Ev("agent_finish", "session")
EvCancelled == Ev("agent_cancelled", "Execution cancelled by user")
EvError(k)  == Ev("error", k)

EvStep_constant(d) == Ev("agent_step", "a")

EvStep(d) == Ev("agent_step", d)

\* except Exception: every class the called code raises derives from it
stream_catches_runtime_only(kind) == kind = "RuntimeError"

stream_catches(kind) ==
    kind \in {"RuntimeError"} \cup BuildErrors \cup PrepareErrors \cup ExecErrors

\* an exception raised inside the try block of stream (lines 179-184)
StreamRaise(kind, where) ==
    /\ raisedIn' = where
    /\ IF stream_catches(kind)
       THEN /\ events' = Append(events, EvError(kind))
            /\ pc' = "yield_error"
            /\ UNCHANGED escaped
       ELSE /\ escaped' = kind
            /\ pc' = "done"
            /\ UNCHANGED events

\* calling stream() creates the generator; nothing of its body runs yet
stream_call ==
    /\ mode = "ctx"
    /\ mode' = "stream"
    /\ pc' = "created"
    /\ UNCHANGED <<extVars, tokenVars, sessionVars, ctx_token, rag_enabled, events,
                   produced, execSteps, built, retrieved, result, escaped,
                   cancelSeenAt, raisedIn, cancelledAtCall>>

\* first __anext__: run to the yield of agent_start (lines 135-143)
stream_start ==
    /\ mode = "stream" /\ pc = "created"
    /\ events' = Append(events, EvStart)
    /\ pc' = "yield_start"
    /\ UNCHANGED <<extVars, tokenVars, sessionVars, ctx_token, rag_enabled, mode,
                   produced, execSteps, built, retrieved, result, escaped,
                   cancelSeenAt, raisedIn, cancelledAtCall>>

\* resumed after agent_start: the cancellation check (lines 145-147)
stream_check ==
    /\ mode = "stream" /\ pc = "yield_start"
    /\ IF is_cancelled(cancelled[ctx_token])
       THEN /\ cancelSeenAt' = "precheck"
            /\ StreamRaise("RuntimeError", "check")
       ELSE /\ pc' = "build"
            /\ UNCHANGED <<events, escaped, cancelSeenAt, raisedIn>>
    /\ UNCHANGED <<extVars, tokenVars, sessionVars, ctx_token, rag_enabled, mode,
                   produced, execSteps, built, retrieved, result,
                   cancelledAtCall>>

\* agent_executor = await self._build_agent(context) (line 150)
stream_build ==
    /\ mode = "stream" /\ pc = "build"
    /\ \/ /\ built' = TRUE
          /\ pc' = "prepare"
          /\ UNCHANGED <<events, escaped, raisedIn>>
       \/ /\ \E k \in BuildErrors : StreamRaise(k, "build")
          /\ UNCHANGED built
    /\ UNCHANGED <<extVars, tokenVars, sessionVars, ctx_token, rag_enabled, mode,
                   produced, execSteps, retrieved, result, cancelSeenAt,
                   cancelledAtCall>>

\* agent_input = await self._prepare_input(context, message) (line 153)
stream_prepare ==
    /\ mode = "stream" /\ pc = "prepare"
    /\ retrieved' = rag_enabled
    /\ \/ /\ pc' = "astream"
          /\ UNCHANGED <<events, escaped, raisedIn>>
       \/ /\ rag_enabled
          /\ \E k \in PrepareErrors : StreamRaise(k, "prepare")
    /\ UNCHANGED <<extVars, tokenVars, sessionVars, ctx_token, rag_enabled, mode,
                   produced, execSteps, built, result, cancelSeenAt,
                   cancelledAtCall>>

\* async for ... in agent_executor.astream(agent_input) (line 156): the
\* generator, entering the loop or resumed after an agent_step, asks the
\* executor for its next event, which starts the next model / tool step
stream_exec_begin ==
    /\ mode = "stream" /\ pc \in {"astream", "yield_step"}
    /\ Len(produced) < MaxSteps
    /\ execSteps' = execSteps + 1
    /\ pc' = "exec_running"
    /\ UNCHANGED <<extVars, tokenVars, sessionVars, ctx_token, rag_enabled, mode,
                   events, produced, built, retrieved, result, escaped,
                   cancelSeenAt, raisedIn, cancelledAtCall>>

\* the executor's step returns an event or raises; loop body (lines 157-168)
stream_exec_return ==
    /\ mode = "stream" /\ pc = "exec_running"
    /\ \/ \E d \in EventData :
            /\ produced' = Append(produced, d)
            /\ IF is_cancelled(cancelled[ctx_token])
               THEN /\ events' = Append(events, EvCancelled)
                    /\ cancelSeenAt' = "loop"
                    /\ pc' = "yield_cancelled"
               ELSE /\ events' = Append(events, EvStep(d))
                    /\ pc' = "yield_step"
                    /\ UNCHANGED cancelSeenAt
            /\ UNCHANGED <<escaped, raisedIn>>
       \/ /\ \E k \in ExecErrors : StreamRaise(k, "exec")
          /\ UNCHANGED <<produced, cancelSeenAt>>
    /\ UNCHANGED <<extVars, tokenVars, sessionVars, ctx_token, rag_enabled, mode,
                   execSteps, built, retrieved, result, cancelledAtCall>>

\* the executor has no further event: the loop ends and agent_finish is
\* yielded (lines 170-177)
stream_loop_end ==
    /\ mode = "stream" /\ pc \in {"astream", "yield_step"}
    /\ events' = Append(events, EvFinish)
    /\ pc' = "yield_finish"
    /\ UNCHANGED <<extVars, tokenVars, sessionVars, ctx_token, rag_enabled, mode,
                   produced, execSteps, built, retrieved, result, escaped,
                   cancelSeenAt, raisedIn, cancelledAtCall>>

\* resumed after agent_cancelled: break leaves the loop, and the statement
\* after the loop yields agent_finish (lines 162, 170-177)
stream_after_cancelled ==
    /\ mode = "stream" /\ pc = "yield_cancelled"
    /\ events' = Append(events, EvFinish)
    /\ pc' = "yield_finish"
    /\ UNCHANGED <<extVars, tokenVars, sessionVars, ctx_token, rag_enabled, mode,
                   produced, execSteps, built, retrieved, result, escaped,
                   cancelSeenAt, raisedIn, cancelledAtCall>>

\* resumed after agent_finish or error: the generator returns
stream_end ==
    /\ mode = "stream" /\ pc \in {"yield_finish", "yield_error"}
    /\ pc' = "done"
    /\ UNCHANGED <<extVars, tokenVars, sessionVars, ctx_token, rag_enabled, mode,
                   events, produced, execSteps, built, retrieved, result,
                   escaped, cancelSeenAt, raisedIn, cancelledAtCall>>

\* --------------------------------------------------------- AgentRuntime.run
Success    == [returned |-> TRUE, success |-> TRUE, error |-> NoExc]
Failure(k) == [returned |-> TRUE, success |-> FALSE, error |-> k]

\* except Exception (line 112)
run_catches_runtime_only(kind) == kind = "RuntimeError"

run_catches(kind) ==
    kind \in {"RuntimeError"} \cup BuildErrors \cup PrepareErrors \cup ExecErrors

\* if context.cancellation_token.is_cancelled(): raise (lines 83-84)
run_checkpoint_skipped(flag) == FALSE

run_checkpoint(flag) == is_cancelled(flag)

\* an exception raised inside the try block of run (lines 112-117)
RunRaise(kind, where) ==
    /\ raisedIn' = where
    /\ pc' = "done"
    /\ IF run_catches(kind)
       THEN /\ result' = Failure(kind)
            /\ UNCHANGED escaped
       ELSE /\ escaped' = kind
            /\ UNCHANGED result

\* run(context, message) is called
run_call ==
    /\ mode = "ctx"
    /\ mode' = "run"
    /\ pc' = "r_check"
    /\ cancelledAtCall' = cancelled[ctx_token]
    /\ UNCHANGED <<extVars, tokenVars, sessionVars, ctx_token, rag_enabled, events,
                   produced, execSteps, built, retrieved, result, escaped,
                   cancelSeenAt, raisedIn>>

\* the cancellation check (lines 82-84)
run_check ==
    /\ mode = "run" /\ pc = "r_check"
    /\ IF run_checkpoint(cancelled[ctx_token])
       THEN /\ cancelSeenAt' = "precheck"
            /\ RunRaise("RuntimeError", "check")
       ELSE /\ pc' = "r_build"
            /\ UNCHANGED <<result, escaped, cancelSeenAt, raisedIn>>
    /\ UNCHANGED <<extVars, tokenVars, sessionVars, ctx_token, rag_enabled, mode,
                   events, produced, execSteps, built, retrieved,
                   cancelledAtCall>>

\* agent_executor = await self._build_agent(context) (line 87)
run_build ==
    /\ mode = "run" /\ pc = "r_build"
    /\ \/ /\ built' = TRUE
          /\ pc' = "r_prepare"
          /\ UNCHANGED <<result, escaped, raisedIn>>
       \/ /\ \E k \in BuildErrors : RunRaise(k, "build")
          /\ UNCHANGED built
    /\ UNCHANGED <<extVars, tokenVars, sessionVars, ctx_token, rag_enabled, mode,
                   events, produced, execSteps, retrieved, cancelSeenAt,
                   cancelledAtCall>>

\* agent_input = await self._prepare_input(context, message) (line 90)
run_prepare ==
    /\ mode = "run" /\ pc = "r_prepare"
    /\ retrieved' = rag_enabled
    /\ \/ /\ pc' = "r_invoke"
          /\ UNCHANGED <<result, escaped, raisedIn>>
       \/ /\ rag_enabled
          /\ \E k \in PrepareErrors : RunRaise(k, "prepare")
    /\ UNCHANGED <<extVars, tokenVars, sessionVars, ctx_token, rag_enabled, mode,
                   events, produced, execSteps, built, cancelSeenAt,
                   cancelledAtCall>>

\* result = await agent_executor.ainvoke(agent_input): the call starts
run_invoke_begin ==
    /\ mode = "run" /\ pc = "r_invoke"
    /\ execSteps' = execSteps + 1
    /\ pc' = "r_invoking"
    /\ UNCHANGED <<extVars, tokenVars, sessionVars, ctx_token, rag_enabled, mode,
                   events, produced, built, retrieved, result, escaped,
                   cancelSeenAt, raisedIn, cancelledAtCall>>

\* ainvoke returns (lines 95-110) or raises
run_invoke_return ==
    /\ mode = "run" /\ pc = "r_invoking"
    /\ \/ /\ \E d \in EventData : produced' = Append(produced, d)
          /\ result' = Success
          /\ pc' = "done"
          /\ UNCHANGED <<escaped, raisedIn>>
       \/ /\ \E k \in ExecErrors : RunRaise(k, "exec")
          /\ UNCHANGED produced
    /\ UNCHANGED <<extVars, tokenVars, sessionVars, ctx_token, rag_enabled, mode,
                   events, execSteps, built, retrieved, cancelSeenAt,
                   cancelledAtCall>>

\* ----------------------------------------------------------- specification
Next ==
    \/ \E t \in TokenIds : TokenCancel(t)
    \/ \E t \in TokenIds : TokenIsCancelled(t)
    \/ \E e \in {NoToken} \cup TokenIds, sid \in {0} \cup SessionIds,
          rag \in BOOLEAN :
            AgentContext_init(e, sid, rag)
    \/ stream_call
    \/ stream_start
    \/ stream_check
    \/ stream_build
    \/ stream_prepare
    \/ stream_exec_begin
    \/ stream_exec_return
    \/ stream_loop_end
    \/ stream_after_cancelled
    \/ stream_end
    \/ run_call
    \/ run_check
    \/ run_build
    \/ run_prepare
    \/ run_invoke_begin
    \/ run_invoke_return

Spec == Init /\ [][Next]_vars

\* ================================================================ ModelRouter
\* Selection policies of backend/app/models/router.py.  Costs are counted in
\* hundredths of the listed unit (0.14 -> 14, the default 999.0 -> 99900);
\* listed costs and ranks are positive.  Infinity stands for float('inf').

UnrankedCost    == 999 * 100
UnrankedSpeed   == 999
UnrankedQuality == 0
InitialQuality  == 0
Infinity        == 1000000

Strategies == {"cost", "speed", "quality", "fallback"}

\* dict.get(key, default)
dict_get(table, key, default) ==
    IF key \in DOMAIN table THEN table[key] ELSE default

\* the (provider, model) pairs in the order the nested for loops visit them
RECURSIVE Pairs(_, _)
Pairs(providers, models) ==
    IF providers = <<>> THEN <<>>
    ELSE LET p == Head(providers) IN
         [i \in 1..Len(models[p]) |-> <<p, models[p][i]>>]
            \o Pairs(Tail(providers), models)

\* the comparison that replaces the running best: cost < best_cost,
\* speed < best_speed, quality > best_quality
improves_or_ties(policy, v, best) ==
    IF policy = "quality" THEN v >= best ELSE v <= best

improves(policy, v, best) ==
    IF policy = "quality" THEN v > best ELSE v < best

\* the body of the nested loops, over the flattened pair list
RECURSIVE scan(_, _, _, _, _)
scan(policy, pairs, table, default, best) ==
    IF pairs = <<>> THEN <<best.provider, best.model>>
    ELSE LET v == dict_get(table, Head(pairs)[2], default) IN
         scan(policy, Tail(pairs), table, default,
              IF improves(policy, v, best.value)
              THEN [value |-> v, provider |-> Head(pairs)[1],
                    model |-> Head(pairs)[2]]
              ELSE best)

select_by_cost(providers, models, costs) ==
    scan("cost", Pairs(providers, models), costs, UnrankedCost,
         [value |-> Infinity, provider |-> NoneVal, model |-> NoneVal])

select_by_speed(providers, models, speeds) ==
    scan("speed", Pairs(providers, models), speeds, UnrankedSpeed,
         [value |-> Infinity, provider |-> NoneVal, model |-> NoneVal])

select_by_quality(providers, models, quality) ==
    scan("quality", Pairs(providers, models), quality, UnrankedQuality,
         [value |-> InitialQuality, provider |-> NoneVal, model |-> NoneVal])

\* the dispatch of _select_by_strategy on one ranking table
select_policy(strategy, providers, models, table) ==
    IF strategy = "cost" THEN select_by_cost(providers, models, table)
    ELSE IF strategy = "speed" THEN select_by_speed(providers, models, table)
    ELSE select_by_quality(providers, models, table)

\* ---- inputs of the policies: any candidate list, model lists and table
MaxModels == 2           \* models listed by one provider

GenModels    == {"m1", "m2", "m3"}
RankValues   == {1, 5, 1000, 100000}

DistinctSeqs(S, n) ==
    UNION {{q \in [1..k -> S] : \A i, j \in 1..k : q[i] = q[j] => i = j}
              : k \in 0..n}

CandidateLists == DistinctSeqs(GenProviders, Cardinality(GenProviders)) \ {<<>>}
ModelLists     == DistinctSeqs(GenModels, MaxModels)
RankTables     == UNION {[S -> RankValues] : S \in SUBSET GenModels}

apply_policy(strategy, providers, models, table) ==
    /\ sel.strategy = "none"
    /\ sel' = [strategy |-> strategy, providers |-> providers,
               models |-> models, table |-> table,
               result |-> select_policy(strategy, providers, models, table)]
    /\ UNCHANGED <<tokenVars, sessionVars, taskVars, ctxVars, auxVars,
                   routerVars, rag_call>>


Policies == {"cost", "speed", "quality"}

NextSelect ==
    /\ sel.strategy = "none"
    /\ \E strategy \in Policies, providers \in CandidateLists,
          models \in [GenProviders -> ModelLists], table \in RankTables :
           apply_policy(strategy, providers, models, table)

SpecSelect == Init /\ [][NextSelect]_vars

\* ------------------------------------------------------------- get_model
\* ModelProviderConfig.PROVIDERS (core/config.py), its first two providers in
\* dict order, and the router's tables for their models.  api_keys is the set
\* of providers whose api_key setting is non-empty; ranked is the set of
\* models that have an entry in the ranking tables.

Providers == <<"openai", "deepseek">>

ProviderSet == {Providers[i] : i \in 1..Len(Providers)}

ProviderModels ==
    [p \in ProviderSet |->
        IF p = "openai" THEN <<"gpt-4", "gpt-4-turbo", "gpt-3.5-turbo">>
        ELSE <<"deepseek-chat", "deepseek-coder">>]

ProviderDefault ==
    [p \in ProviderSet |->
        IF p = "openai" THEN "gpt-3.5-turbo" ELSE "deepseek-chat"]

AllModels ==
    UNION {{ProviderModels[p][i] : i \in 1..Len(ProviderModels[p])}
              : p \in ProviderSet}

load_model_costs ==
    "gpt-4" :> 3000 @@ "gpt-4-turbo" :> 1000 @@ "gpt-3.5-turbo" :> 50
      @@ "deepseek-chat" :> 14 @@ "deepseek-coder" :> 14

load_model_speed ==
    "gpt-3.5-turbo" :> 1 @@ "deepseek-chat" :> 3 @@ "gpt-4-turbo" :> 5
      @@ "deepseek-coder" :> 9 @@ "gpt-4" :> 10

load_model_quality ==
    "gpt-4" :> 10 @@ "gpt-4-turbo" :> 9 @@ "deepseek-coder" :> 7
      @@ "deepseek-chat" :> 5 @@ "gpt-3.5-turbo" :> 5

\* the table a policy reads, with the entries the tables hold
table_of(strategy) ==
    LET full == IF strategy = "cost" THEN load_model_costs
                ELSE IF strategy = "speed" THEN load_model_speed
                ELSE load_model_quality
    IN [m \in DOMAIN full \cap ranked |-> full[m]]

\* ModelProviderConfig.get_available_providers()
get_available_providers ==
    SelectSeq(Providers, LAMBDA p : p \in api_keys)

SeqRange(q) == {q[i] : i \in 1..Len(q)}

\* _select_by_strategy(strategy, preferred_provider)
select_candidates(preferred_provider) ==
    IF preferred_provider # NoneVal
         /\ preferred_provider \in SeqRange(get_available_providers)
    THEN <<preferred_provider>>
    ELSE get_available_providers

select_by_strategy(strategy, preferred_provider) ==
    LET candidates == select_candidates(preferred_provider) IN
    IF get_available_providers = <<>>
    THEN [exc |-> "ValueError:no_providers", pair |-> <<NoneVal, NoneVal>>]
    ELSE IF strategy \in Policies
    THEN [exc |-> NoExc,
          pair |-> select_policy(strategy, candidates, ProviderModels,
                                 table_of(strategy))]
    ELSE [exc |-> NoExc,
          pair |-> <<Head(candidates), ProviderDefault[Head(candidates)]>>]

\* the key get_model works on: the explicit pair, or the selected one
resolve_key(provider, model_name, strategy) ==
    IF provider # NoneVal /\ model_name # NoneVal
    THEN [exc |-> NoExc, pair |-> <<provider, model_name>>]
    ELSE select_by_strategy(strategy, provider)

\* f"{provider}:{model_name}" is kept as the pair; None formats as "None"
CreateErrors == {"ImportError", "Exception"}

\* the checks of _create_model before the provider's client class is called
create_model_check(provider) ==
    IF provider \notin ProviderSet \/ provider \notin api_keys
    THEN "ValueError:not_configured"
    ELSE NoExc       \* every provider of PROVIDERS has a client branch


MaxClients == 3          \* clients constructed by one router

ModelNames == {"gpt-4", "deepseek-chat"}
ProviderArgs == {NoneVal, "bogus"} \cup ProviderSet
ModelArgs == {NoneVal} \cup ModelNames
ParamArgs == {"t07", "t00"}

Constructed == LET n(k) == clients[k] IN
    IF DOMAIN clients = {} THEN 0
    ELSE LET RECURSIVE Sum(_)
             Sum(S) == IF S = {} THEN 0
                       ELSE LET k == CHOOSE x \in S : TRUE
                            IN n(k) + Sum(S \ {k})
         IN Sum(DOMAIN clients)

\* get_model(provider, model_name, strategy, temperature, max_tokens) up to
\* the cache key (lines 108-109, 118-120); _select_by_strategy may raise
get_model_call(th, provider, model_name, strategy, params) ==
    /\ rthr[th].pc = "idle"
    /\ LET r == resolve_key(provider, model_name, strategy) IN
       rthr' = [rthr EXCEPT ![th] =
                  [pc |-> IF r.exc = NoExc THEN "test" ELSE "raised",
                   provider |-> provider, model |-> model_name,
                   strategy |-> strategy, params |-> params,
                   key |-> r.pair, made |-> NoClient, ret |-> NoClient,
                   exc |-> r.exc]]
    /\ UNCHANGED <<api_keys, ranked, model_cache, clients, sel, rag_call,
                   tokenVars, sessionVars, taskVars, ctxVars, auxVars>>

\* if cache_key in self._model_cache: return self._model_cache[cache_key]
get_model_test(th) ==
    /\ rthr[th].pc = "test"
    /\ rthr' = [rthr EXCEPT ![th] =
                  IF rthr[th].key \in DOMAIN model_cache
                  THEN [@ EXCEPT !.pc = "returned",
                                 !.ret = model_cache[rthr[th].key]]
                  ELSE [@ EXCEPT !.pc = "create"]]
    /\ UNCHANGED <<api_keys, ranked, model_cache, clients, sel, rag_call,
                   tokenVars, sessionVars, taskVars, ctxVars, auxVars>>

\* an exception of _create_model leaves get_model (no try around the call)
create_raises_swallowed(call, e) ==
    [call EXCEPT !.pc = "returned", !.ret = NoClient]

create_raises(call, e) == [call EXCEPT !.pc = "raised", !.exc = e]

\* model = self._create_model(...): a new client object, or an exception
get_model_create(th) ==
    /\ rthr[th].pc = "create"
    /\ LET key == rthr[th].key
           chk == create_model_check(key[1])
           n   == dict_get(clients, key, 0) + 1
       IN
       \/ /\ chk # NoExc
          /\ rthr' = [rthr EXCEPT ![th] = create_raises(@, chk)]
          /\ UNCHANGED clients
       \/ /\ chk = NoExc
          /\ \E e \in CreateErrors :
                rthr' = [rthr EXCEPT ![th] = create_raises(@, e)]
          /\ UNCHANGED clients
       \/ /\ chk = NoExc
          /\ Constructed < MaxClients
          /\ clients' = (key :> n) @@ clients
          /\ rthr' = [rthr EXCEPT ![th].pc = "store",
                         ![th].made = [key |-> key, serial |-> n,
                                       params |-> rthr[th].params]]
    /\ UNCHANGED <<api_keys, ranked, model_cache, sel, rag_call,
                   tokenVars, sessionVars, taskVars, ctxVars, auxVars>>

\* self._model_cache[cache_key] = model; return model
cache_store_dropped(cache, key, model) == cache

cache_store(cache, key, model) == (key :> model) @@ cache

get_model_store(th) ==
    /\ rthr[th].pc = "store"
    /\ model_cache' = cache_store(model_cache, rthr[th].key, rthr[th].made)
    /\ rthr' = [rthr EXCEPT ![th].pc = "returned",
                            ![th].ret = rthr[th].made]
    /\ UNCHANGED <<api_keys, ranked, clients, sel, rag_call,
                   tokenVars, sessionVars, taskVars, ctxVars, auxVars>>

\* the caller takes the returned client or the exception
get_model_done(th) ==
    /\ rthr[th].pc \in {"returned", "raised"}
    /\ rthr' = [rthr EXCEPT ![th] = IdleCall]
    /\ UNCHANGED <<api_keys, ranked, model_cache, clients, sel, rag_call,
                   tokenVars, sessionVars, taskVars, ctxVars, auxVars>>

\* the settings a router may run under
RankedChoices == {AllModels, {"gpt-4"}, {}}

RouterInit ==
    /\ RuntimeInit
    /\ api_keys \in SUBSET ProviderSet
    /\ ranked \in RankedChoices
    /\ model_cache = EmptyCache
    /\ clients = EmptyCache
    /\ rthr = [th \in RThreads |-> IdleCall]
    /\ sel = NoSelection
    /\ rag_call = NoRetrieve
    /\ AuxIdle

\* one caller at a time
NextRouter ==
    \/ \E provider \in ProviderArgs, model_name \in ModelArgs,
          strategy \in Strategies, params \in ParamArgs :
            get_model_call(1, provider, model_name, strategy, params)
    \/ get_model_test(1)
    \/ get_model_create(1)
    \/ get_model_store(1)
    \/ get_model_done(1)

SpecRouter == RouterInit /\ [][NextRouter]_vars

\* callers on several threads, all asking for the same model
NextRouterConc ==
    \/ \E th \in RThreads, provider \in {NoneVal, "openai"},
          model_name \in {NoneVal, "gpt-4"}, params \in ParamArgs :
            get_model_call(th, provider, model_name, "cost", params)
    \/ \E th \in RThreads : get_model_test(th)
    \/ \E th \in RThreads : get_model_create(th)
    \/ \E th \in RThreads : get_model_store(th)
    \/ \E th \in RThreads : get_model_done(th)

SpecRouterConc == RouterInit /\ [][NextRouterConc]_vars


\* ================================================================ RAGPipeline
\* retrieve of backend/app/rag/pipeline.py over ChromaDBManager.search of
\* backend/app/storage/chroma_db.py.  Scores and thresholds are counted in
\* tenths (0.7 -> 7).  A namespace of the index is its name, the exception
\* searching it raises (fails, NoExc for none), and the scores of its
\* documents in the store's relevance order.

TOP_K_RETRIEVAL      == 5
SIMILARITY_THRESHOLD == 7
UnscoredScore        == 10      \* 1.0, "No score available"

\* Python's `x or default` on an optional number: None and 0 are both falsy
py_or(x, default) == IF x = <<>> \/ x = <<0>> THEN default ELSE x[1]

\* list[:k] for k >= 0
Take(q, k) == SubSeq(q, 1, IF k < Len(q) THEN k ELSE Len(q))

\* the comparison of the threshold filter in search
survives_all(score, threshold) == TRUE

survives(score, threshold) == score >= threshold

\* ChromaDBManager.search(namespace, query, k, score_threshold=threshold) on
\* a namespace that does not raise: (index, score) pairs
search(ns, k, threshold) ==
    LET top == Take(ns.scores, k) IN
    IF threshold # 0
    THEN SelectSeq([i \in 1..Len(top) |-> [ns |-> ns.name, idx |-> i,
                                            score |-> top[i]]],
                   LAMBDA r : survives(r.score, threshold))
    ELSE [i \in 1..Len(top) |-> [ns |-> ns.name, idx |-> i,
                                 score |-> UnscoredScore]]

\* the exceptions a search raises, and `except Exception` around it
SearchErrors == {"Exception", "ValueError"}

retrieve_catches(kind) == kind \in SearchErrors

\* what the loop does with the namespaces after one whose search raised
after_failure_break(rest) == <<>>

after_failure(rest) == rest

\* the for loop of retrieve: all_results after the given namespaces
RECURSIVE collect(_, _, _)
collect(index, k, threshold) ==
    IF index = <<>> THEN <<>>
    ELSE IF Head(index).fails # NoExc
    THEN after_failure(collect(Tail(index), k, threshold))
    ELSE search(Head(index), k, threshold)
            \o collect(Tail(index), k, threshold)

\* list.sort(key=score, reverse=True): stable, descending
RECURSIVE insert_desc(_, _)
insert_desc(sorted, r) ==
    IF sorted = <<>> THEN <<r>>
    ELSE IF Head(sorted).score >= r.score
    THEN <<Head(sorted)>> \o insert_desc(Tail(sorted), r)
    ELSE <<r>> \o sorted

RECURSIVE sort_desc(_)
sort_desc(q) ==
    IF q = <<>> THEN <<>>
    ELSE insert_desc(sort_desc(SubSeq(q, 1, Len(q) - 1)), q[Len(q)])

\* an exception leaves retrieve when the handler does not catch it
retrieve_raises(index) ==
    \E i \in 1..Len(index) :
       index[i].fails # NoExc /\ ~retrieve_catches(index[i].fails)

\* RAGPipeline.retrieve(query, namespaces, k, score_threshold)
retrieve(index, k, score_threshold) ==
    LET k_eff  == py_or(k, TOP_K_RETRIEVAL)
        th_eff == py_or(score_threshold, SIMILARITY_THRESHOLD)
    IN IF retrieve_raises(index) THEN <<>>
       ELSE Take(sort_desc(collect(index, k_eff, th_eff)), k_eff)

\* ---- inputs of retrieve
MaxNamespaces == 2
MaxDocs       == 2

ScoreValues    == {3, 6, 7, 9}
KArgs          == {<<>>, <<0>>, <<1>>, <<2>>, <<3>>}
ThresholdArgs  == {<<>>, <<0>>, <<5>>, <<7>>, <<9>>}

Rankings ==
    UNION {{q \in [1..n -> ScoreValues] :
               \A i \in 1..n - 1 : q[i] >= q[i + 1]} : n \in 0..MaxDocs}

NamespaceOutcomes ==
    {[fails |-> e, scores |-> <<>>] : e \in SearchErrors}
       \cup {[fails |-> NoExc, scores |-> q] : q \in Rankings}

\* the namespaces list of a call: namespaces are named by their position
Namespaces(outcomes) ==
    [i \in 1..Len(outcomes) |-> [name |-> i, fails |-> outcomes[i].fails,
                                 scores |-> outcomes[i].scores]]

retrieve_call(index, k, score_threshold) ==
    /\ ~rag_call.called
    /\ rag_call' = [called |-> TRUE, index |-> index, k |-> k,
                    threshold |-> score_threshold,
                    raised |-> retrieve_raises(index),
                    out |-> retrieve(index, k, score_threshold)]
    /\ UNCHANGED <<tokenVars, sessionVars, taskVars, ctxVars, auxVars,
                   routerVars, sel>>

NextRetrieve ==
    /\ ~rag_call.called
    /\ \E n \in 0..MaxNamespaces :
          \E outcomes \in [1..n -> NamespaceOutcomes], k \in KArgs,
             score_threshold \in ThresholdArgs :
               retrieve_call(Namespaces(outcomes), k, score_threshold)

SpecRetrieve == Init /\ [][NextRetrieve]_vars


\* ============================================================ session + run
\* The run endpoint (api/v1/agents.py) builds AgentContext(config,
\* session_id=id) and calls run; register / cancel / cleanup of the session
\* come from the same event loop, one call at a time.
NextSessionRun ==
    \/ \E e \in {NoToken} \cup TokenIds, sid \in SessionIds, rag \in BOOLEAN :
          AgentContext_init(e, sid, rag)
    \/ \E sid \in SessionIds : register_session(1, sid)
    \/ \E sid \in SessionIds : cancel_session_test(1, sid)
    \/ cancel_session_lookup(1)
    \/ \E sid \in SessionIds : cleanup_session_test(1, sid)
    \/ cleanup_session_del(1)
    \/ run_call
    \/ run_check
    \/ run_build
    \/ run_prepare
    \/ run_invoke_begin
    \/ run_invoke_return

SpecSessionRun == Init /\ [][NextSessionRun]_vars


\* =============================================================== ToolRegistry
\* Permission control of backend/app/tools/base.py: _permissions maps a tool
\* name to the list of user ids granted on it; a tool has no entry until the
\* first grant.
ToolNames == {"calculator", "weather"}
UserIds   == {"user1", "user2"}

\* user_id in list
list_contains(list, x) == \E i \in 1..Len(list) : list[i] = x

\* list.remove(x): the first occurrence goes
list_remove_kept(list, x) == list

list_remove(list, x) ==
    LET i == CHOOSE j \in 1..Len(list) :
                list[j] = x /\ \A l \in 1..j - 1 : list[l] # x
    IN SubSeq(list, 1, i - 1) \o SubSeq(list, i + 1, Len(list))

\* the value check_permission returns
permitted_empty_open(perms, tool, user) ==
    \/ tool \notin DOMAIN perms
    \/ perms[tool] = <<>>
    \/ list_contains(perms[tool], user)

permitted(perms, tool, user) ==
    IF tool \notin DOMAIN perms THEN TRUE
    ELSE list_contains(perms[tool], user)

ToolFrame ==
    UNCHANGED <<tokenVars, sessionVars, taskVars, ctxVars, routerVars, sel,
                rag_call, prep, run_out, index_chunks, ingest_out>>

check_permission(tool, user) ==
    /\ tool_last' = [op |-> "check", tool |-> tool, user |-> user,
                     result |-> permitted(permissions, tool, user)]
    /\ UNCHANGED <<permissions, granted>>
    /\ ToolFrame

grant_permission(tool, user) ==
    /\ LET entry == IF tool \in DOMAIN permissions
                    THEN permissions
                    ELSE (tool :> <<>>) @@ permissions
       IN permissions' =
             IF list_contains(entry[tool], user) THEN entry
             ELSE [entry EXCEPT ![tool] = Append(@, user)]
    /\ granted' = granted \cup {tool}
    /\ tool_last' = [op |-> "grant", tool |-> tool, user |-> user,
                     result |-> FALSE]
    /\ ToolFrame

revoke_permission(tool, user) ==
    /\ permissions' =
          IF tool \in DOMAIN permissions
               /\ list_contains(permissions[tool], user)
          THEN [permissions EXCEPT ![tool] = list_remove(@, user)]
          ELSE permissions
    /\ tool_last' = [op |-> "revoke", tool |-> tool, user |-> user,
                     result |-> FALSE]
    /\ UNCHANGED granted
    /\ ToolFrame

NextTools ==
    \/ \E tool \in ToolNames, user \in UserIds : check_permission(tool, user)
    \/ \E tool \in ToolNames, user \in UserIds : grant_permission(tool, user)
    \/ \E tool \in ToolNames, user \in UserIds : revoke_permission(tool, user)

SpecTools == Init /\ [][NextTools]_vars


\* ============================================================ _prepare_input
\* AgentRuntime._prepare_input (runtime.py): the knowledge bases of the agent
\* are the namespaces searched, with the default k and threshold.  metadata
\* is the set of keys of context.metadata, rag_results the value stored
\* under "rag_results", namespaces the index behind the knowledge bases.
prepare_input(rag, outcomes) ==
    LET kb_ids  == Len(outcomes)
        calls   == rag /\ kb_ids > 0
        results == IF calls THEN retrieve(Namespaces(outcomes), <<>>, <<>>)
                   ELSE <<>>
        used    == calls /\ results # <<>>
    IN
    /\ ~prep.called
    /\ prep' = [called |-> TRUE, rag_enabled |-> rag, kb_ids |-> kb_ids,
                namespaces |-> Namespaces(outcomes),
                retrieve_called |-> calls, results |-> results,
                prepended |-> used,
                metadata |-> IF used THEN {"rag_results"} ELSE {},
                rag_results |-> IF used THEN results ELSE <<>>]
    /\ UNCHANGED <<tokenVars, sessionVars, taskVars, ctxVars, routerVars,
                   sel, rag_call, toolVars, run_out, index_chunks, ingest_out>>

NextPrepare ==
    /\ ~prep.called
    /\ \E rag \in BOOLEAN, n \in 0..MaxNamespaces :
          \E outcomes \in [1..n -> NamespaceOutcomes] :
             prepare_input(rag, outcomes)

SpecPrepare == Init /\ [][NextPrepare]_vars


\* ================================================================ run result
\* The executor _build_agent constructs (runtime.py:216-223) and what run
\* returns for its result (lines 92-117).  AgentExecutor is given
\* max_iterations only, so its other options keep their defaults: the
\* result carries no "intermediate_steps" key and a run that reaches the
\* iteration limit returns a stop message as its output.  plan is the
\* sequence of tool calls the agent would make before its final answer.
ReturnIntermediateSteps == FALSE
EarlyStoppingMethod     == "force"
StoppedOutput           == "Agent stopped due to iteration limit or time limit."
FinalAnswer             == "answer"

MaxPlan == 3

AgentTools      == {"calculator", "weather"}
IterationLimits == {1, 2, 3, 10}

\* AgentExecutor.ainvoke: one tool call per iteration until the agent
\* answers or max_iterations iterations have been made
ainvoke(plan, max_iterations, fails) ==
    LET limit == Len(plan) >= max_iterations IN
    [raised  |-> IF fails # NoExc THEN fails
                 ELSE IF limit /\ EarlyStoppingMethod # "force"
                 THEN "ValueError" ELSE NoExc,
     invoked |-> Take(plan, max_iterations),
     stopped |-> IF limit THEN "max_iterations" ELSE "finished",
     output  |-> IF limit THEN StoppedOutput ELSE FinalAnswer,
     has_intermediate_steps |-> ReturnIntermediateSteps]

\* _extract_tools_used(result): result.get("intermediate_steps", [])
extract_tools_used(res) ==
    IF res.has_intermediate_steps THEN res.invoked ELSE <<>>

\* run from the ainvoke call to its return value
run_returns(plan, max_iterations, fails) ==
    LET res == ainvoke(plan, max_iterations, fails) IN
    /\ ~run_out.called
    /\ run_out' =
          [called |-> TRUE, plan |-> plan, max_iterations |-> max_iterations,
           invoked |-> res.invoked, stopped |-> res.stopped,
           success |-> res.raised = NoExc,
           response |-> IF res.raised = NoExc THEN res.output ELSE "",
           tools_used |-> IF res.raised = NoExc
                          THEN extract_tools_used(res) ELSE <<>>,
           error |-> IF run_catches(res.raised) THEN res.raised ELSE NoExc]
    /\ UNCHANGED <<tokenVars, sessionVars, taskVars, ctxVars, routerVars,
                   sel, rag_call, toolVars, prep, index_chunks, ingest_out>>

NextRunResult ==
    /\ ~run_out.called
    /\ \E n \in 0..MaxPlan, max_iterations \in IterationLimits,
          fails \in {NoExc} \cup ExecErrors :
          \E plan \in [1..n -> AgentTools] :
             run_returns(plan, max_iterations, fails)

SpecRunResult == Init /\ [][NextRunResult]_vars


\* ================================================================= ingestion
\* RAGPipeline.ingest_file / ingest_text (rag/pipeline.py) over
\* ChromaDBManager.add_documents.  index_chunks counts the chunks stored per
\* namespace.  failure is the exception raised inside the call (NoExc for
\* none), raised the exception that leaves the call.
MaxChunks == 2           \* chunks the splitter makes of one ingestion
MaxStored == 3           \* chunks stored in one namespace

IngestNamespaces == {1, 2}
ParseErrors == {"ParseError"}
AddErrors   == {"AddError"}
NoParser    == "ValueError"

\* except Exception as e (lines 103, 143)
ingest_catches_value_error_only(kind) == kind = NoParser

ingest_catches(kind) == kind \in {NoParser} \cup ParseErrors \cup AddErrors

chunk_count(namespace) == dict_get(index_chunks, namespace, 0)

\* the body of the try block ended by exception kind (NoExc: it completed
\* and added chunks chunks to the namespace)
ingest_finish(op, namespace, kind, chunks) ==
    /\ ingest_out' =
          [op |-> op, namespace |-> namespace, failure |-> kind,
           returned |-> kind = NoExc \/ ingest_catches(kind),
           success |-> kind = NoExc,
           total_chunks |-> IF kind = NoExc THEN chunks ELSE 0,
           error |-> IF kind # NoExc /\ ingest_catches(kind)
                     THEN kind ELSE NoExc,
           raised |-> IF kind # NoExc /\ ~ingest_catches(kind)
                      THEN kind ELSE NoExc]
    /\ index_chunks' =
          IF kind = NoExc
          THEN (namespace :> chunk_count(namespace) + chunks) @@ index_chunks
          ELSE index_chunks
    /\ UNCHANGED <<tokenVars, sessionVars, taskVars, ctxVars, routerVars,
                   sel, rag_call, toolVars, prep, run_out>>

\* ingest_file(file_path, namespace): parser lookup, parse, split, add
ingest_file(namespace, has_parser, parse, chunks, add) ==
    /\ chunk_count(namespace) + chunks <= MaxStored
    /\ ingest_finish("ingest_file", namespace,
                     IF ~has_parser THEN NoParser
                     ELSE IF parse # NoExc THEN parse
                     ELSE add,
                     chunks)

\* ingest_text(text, namespace): split, add
ingest_text(namespace, chunks, add) ==
    /\ chunk_count(namespace) + chunks <= MaxStored
    /\ ingest_finish("ingest_text", namespace, add, chunks)

NextIngest ==
    \/ \E namespace \in IngestNamespaces, has_parser \in BOOLEAN,
          parse \in {NoExc} \cup ParseErrors, chunks \in 0..MaxChunks,
          add \in {NoExc} \cup AddErrors :
            ingest_file(namespace, has_parser, parse, chunks, add)
    \/ \E namespace \in IngestNamespaces, chunks \in 0..MaxChunks,
          add \in {NoExc} \cup AddErrors :
            ingest_text(namespace, chunks, add)

SpecIngest == Init /\ [][NextIngest]_vars

\* ================================================================== claims
EventNames == [i \in 1..Len(events) |-> events[i].event]

ErrorPositions == {i \in 1..Len(events) : events[i].event = "error"}

\* C1: in stream, whenever agent_cancelled has been emitted it is the last
\* event of the stream; no agent_finish and no other event follows it.
C1_CancelledIsLast ==
    mode = "stream" =>
        \A i \in 1..Len(events) :
            events[i].event = "agent_cancelled" => i = Len(events)

\* C2: when the token is already set at the checkpoint before building, the
\* stream is a cancelled run: agent_start then agent_cancelled as the
\* terminal event, the agent is not built and the executor is never invoked.
C2_PrecheckCancelledRun ==
    (mode = "stream" /\ pc = "done" /\ cancelSeenAt = "precheck") =>
        /\ EventNames = <<"agent_start", "agent_cancelled">>
        /\ ~built
        /\ execSteps = 0

\* C3: a stream run whose token is never set and in which nothing raises
\* yields exactly agent_start, one agent_step per executor event in the
\* executor's order, then agent_finish, and nothing after it.
C3_SuccessfulStreamOrder ==
    (mode = "stream" /\ pc = "done" /\ raisedIn = "none"
        /\ ~cancelled[ctx_token]) =>
        events = <<Ev("agent_start", "session")>>
                 \o [i \in 1..Len(produced) |->
                        Ev("agent_step", produced[i])]
                 \o <<Ev("agent_finish", "session")>>

C3_Witness ==
    /\ mode = "stream" /\ pc = "done" /\ raisedIn = "none"
    /\ ~cancelled[ctx_token]
    /\ Len(produced) = 2
    /\ produced[1] # produced[2]

\* C4: when building, preparing the input or an executor step raises inside
\* stream, no exception reaches the consumer; exactly one error event is
\* emitted, after agent_start, and it is the last event of the stream.
C4_StreamErrorTerminal ==
    (mode = "stream" /\ raisedIn \in {"build", "prepare", "exec"}) =>
        /\ escaped = NoExc
        /\ pc \in {"yield_error", "done"}
        /\ Len(events) >= 2
        /\ events[1].event = "agent_start"
        /\ ErrorPositions = {Len(events)}

C4_Witness ==
    /\ mode = "stream" /\ pc = "done" /\ raisedIn = "exec"
    /\ EventNames = <<"agent_start", "agent_step", "error">>

\* C5: when the token is set while the stream is suspended after an
\* agent_step, the resumed stream emits agent_cancelled and stops without
\* starting another executor step.
C5_CancelBetweenSteps ==
    [][(mode = "stream" /\ pc = "yield_step" /\ cancelled[ctx_token]
          /\ pc' # pc)
        => (execSteps' = execSteps /\ events' = Append(events, EvCancelled))
      ]_vars

\* C6: run called with an already cancelled token never builds the agent,
\* never calls retrieval, never invokes the executor, and ends in a failure
\* result.
C6_RunCancelledFailsFast ==
    (mode = "run" /\ cancelledAtCall) =>
        /\ ~built
        /\ ~retrieved
        /\ execSteps = 0
        /\ escaped = NoExc
        /\ pc = "done" => (result.returned /\ ~result.success)

C6_Witness ==
    /\ mode = "run" /\ cancelledAtCall /\ pc = "done"
    /\ result = Failure("RuntimeError")

\* C7: run never lets an exception reach its caller; a failure while
\* building, preparing the input or invoking the executor gives a result
\* with success = false and an error, and success = true is returned only
\* when the executor invocation completed.
C7_RunFailuresAreData ==
    mode = "run" =>
        /\ escaped = NoExc
        /\ pc = "done" => result.returned
        /\ raisedIn \in {"build", "prepare", "exec"} =>
              /\ pc = "done"
              /\ result.returned /\ ~result.success
              /\ result.error # NoExc
        /\ (result.returned /\ result.success) =>
              /\ raisedIn = "none"
              /\ built /\ execSteps = 1 /\ Len(produced) = 1

C7_Witness ==
    /\ mode = "run" /\ pc = "done" /\ raisedIn = "build"
    /\ result = Failure("ValueError")

\* C8: a fresh token reads false; once cancel() has been called on a token
\* every later is_cancelled() returns true; a further cancel() changes
\* nothing; no operation resets the flag.
TokenReadsAgree ==
    /\ \A t \in 1..allocated :
          is_cancelled(cancelled[t]) <=> t \in cancelCalled
    /\ lastOp.op = "is_cancelled" =>
          (lastOp.result <=> lastOp.token \in cancelCalled)

TokenStepMonotone ==
    /\ \A t \in TokenIds : cancelled[t] => cancelled'[t]
    /\ (lastOp'.op = "cancel" /\ cancelled[lastOp'.token]) =>
          cancelled' = cancelled

C8_TokenMonotone == []TokenReadsAgree /\ [][TokenStepMonotone]_vars

C8_Witness ==
    /\ lastOp.op = "is_cancelled" /\ lastOp.result
    /\ lastOp.token \in cancelCalled

\* C9: a new runtime has an empty session map; register_session(id) returns
\* a fresh, not cancelled token and stores it under id; cancel_session(id)
\* sets the token stored under id; cleanup_session(id) removes id.
SessionStepContract ==
    \A th \in Threads :
        /\ (thr'[th] # thr[th] /\ thr'[th].op = "register") =>
              /\ thr'[th].pc = "returned"
              /\ thr'[th].ret = allocated'
              /\ allocated' = allocated + 1
              /\ ~is_cancelled(cancelled'[thr'[th].ret])
              /\ thr'[th].sid \in DOMAIN active_sessions'
              /\ active_sessions'[thr'[th].sid] = thr'[th].ret
        /\ (thr[th].pc = "cancel_lookup" /\ thr'[th].pc = "returned") =>
              is_cancelled(cancelled'[active_sessions[thr[th].sid]])
        /\ (thr[th].pc = "cleanup_del" /\ thr'[th].pc = "returned") =>
              thr[th].sid \notin DOMAIN active_sessions'

C9_SessionLifecycle ==
    (DOMAIN active_sessions = {}) /\ [][SessionStepContract]_vars

C9_Witness ==
    /\ allocated = 1 /\ cancelled[1]
    /\ DOMAIN active_sessions = {}
    /\ \E th \in Threads :
          /\ thr[th] = [pc |-> "returned", op |-> "cleanup",
                        sid |-> 1, ret |-> NoToken]
          /\ \A o \in Threads \ {th} : thr[o] = IdleThread

\* C10: cancel_session and cleanup_session on the same id never raise in
\* any interleaving of concurrent callers, and cancel_session on an id that
\* is not in the map changes no token and adds no entry.
C10_SessionHelpersNeverRaise ==
    [][/\ \A th \in Threads : thr'[th].pc # "raised"
       /\ \A th \in Threads :
             (thr'[th] # thr[th] /\ thr'[th].op = "cancel"
                 /\ thr[th].pc # "cancel_lookup"
                 /\ thr'[th].sid \notin DOMAIN active_sessions) =>
                 (cancelled' = cancelled
                    /\ active_sessions' = active_sessions)
      ]_vars


\* ---- the pairs of the last policy application, by position
SelPositions ==
    {pos \in (1..Len(sel.providers)) \X (1..MaxModels + 1) :
        pos[2] <= Len(sel.models[sel.providers[pos[1]]])}

SelPair(pos) ==
    <<sel.providers[pos[1]], sel.models[sel.providers[pos[1]]][pos[2]]>>

SelRanked(pos) == SelPair(pos)[2] \in DOMAIN sel.table

SelValue(pos) == sel.table[SelPair(pos)[2]]

SelBefore(a, b) == a[1] < b[1] \/ (a[1] = b[1] /\ a[2] < b[2])

SelBest(pos) ==
    \A q \in SelPositions :
        IF sel.strategy = "quality" THEN SelValue(pos) >= SelValue(q)
        ELSE SelValue(pos) <= SelValue(q)

\* C13: with every listed model ranked, COST selects a pair of globally
\* minimum cost, SPEED of minimum speed rank, QUALITY of maximum quality
\* rank, over all pairs of all candidate providers; among the pairs tying on
\* the best value the one first in provider-then-model order is selected.
C13_PolicySelectsFirstBest ==
    (sel.strategy \in Policies /\ SelPositions # {}
        /\ \A q \in SelPositions : SelRanked(q)) =>
        \E pos \in SelPositions :
            /\ sel.result = SelPair(pos)
            /\ SelBest(pos)
            /\ \A q \in SelPositions :
                  SelBest(q) => (q = pos \/ SelBefore(pos, q))

C13_Witness ==
    /\ sel.strategy = "quality"
    /\ \A q \in SelPositions : SelRanked(q)
    /\ \E a, b \in SelPositions :
          /\ SelBest(a) /\ SelBest(b) /\ SelBefore(a, b)
          /\ a # <<1, 1>>
          /\ sel.result = SelPair(a)
          /\ SelPair(a)[1] # SelPair(b)[1]

RouterCalls == {th \in RThreads : rthr[th].pc # "idle"}

\* clients are cached under the key they were built for, and a call that has
\* returned holds the client cached under its key
CacheHoldsReturns ==
    /\ \A k \in DOMAIN model_cache : model_cache[k].key = k
    /\ \A th \in RouterCalls :
          rthr[th].pc = "returned" =>
             /\ rthr[th].key \in DOMAIN model_cache
             /\ rthr[th].ret = model_cache[rthr[th].key]

\* no key has had more than one client constructed for it
ConstructedOncePerKey == \A k \in DOMAIN clients : clients[k] <= 1

\* one step of get_model: cached entries stay as they are; a hit returns the
\* cached client and constructs nothing; a miss goes on to construct; a
\* successful construction makes one client; the store adds it under the key
CacheStepContract ==
    /\ \A k \in DOMAIN model_cache :
          k \in DOMAIN model_cache' /\ model_cache'[k] = model_cache[k]
    /\ \A th \in RThreads :
          LET c == rthr[th]  d == rthr'[th] IN
          /\ (c.pc = "test" /\ c.key \in DOMAIN model_cache) =>
                /\ d.pc = "returned" /\ d.ret = model_cache[c.key]
                /\ clients' = clients /\ model_cache' = model_cache
          /\ (c.pc = "test" /\ c.key \notin DOMAIN model_cache) =>
                d.pc = "create"
          /\ (c.pc = "create" /\ d.pc = "store") =>
                /\ Constructed' = Constructed + 1
                /\ d.made.key = c.key
                /\ model_cache' = model_cache
          /\ (c.pc = "store" /\ d.pc = "returned") =>
                /\ DOMAIN model_cache' = DOMAIN model_cache \cup {c.key}
                /\ model_cache'[c.key] = c.made
                /\ d.ret = c.made
                /\ clients' = clients

\* C11: over any sequence of get_model calls, calls resolving to the same
\* key return the identical client, which is constructed only once; a call
\* resolving to an uncached key constructs exactly one client and stores it
\* under that key; a cached entry is never replaced.
C11_CacheReuse ==
    /\ [](CacheHoldsReturns /\ ConstructedOncePerKey)
    /\ [][CacheStepContract]_vars

\* a second call for a key returns the cached client, with another key cached
C11_Witness ==
    /\ rthr[1].pc = "returned"
    /\ rthr[1].made = NoClient
    /\ rthr[1].ret = model_cache[rthr[1].key]
    /\ Cardinality(DOMAIN model_cache) >= 2

\* C12: concurrent first-time get_model calls for one key construct the
\* client at most once and every caller receives the same instance.
C12_ConcurrentFirstCallerWins ==
    /\ \A k \in DOMAIN clients : clients[k] <= 1
    /\ \A a, b \in RThreads :
          (rthr[a].pc = "returned" /\ rthr[b].pc = "returned"
             /\ rthr[a].key = rthr[b].key) => rthr[a].ret = rthr[b].ret


\* the models the candidate providers of a call list
CandidateModels(th) ==
    UNION {SeqRange(ProviderModels[p])
              : p \in SeqRange(select_candidates(rthr[th].provider))}

\* the call went through _select_by_strategy with a ranking policy while
\* providers were available
PolicyCall(th) ==
    /\ rthr[th].provider = NoneVal \/ rthr[th].model = NoneVal
    /\ rthr[th].strategy \in Policies
    /\ get_available_providers # <<>>

C16_UnknownProviderRejected ==
    \A th \in RouterCalls :
       rthr[th].provider \notin ProviderSet \cup {NoneVal} =>
          /\ rthr[th].pc \notin {"store", "returned"}
          /\ rthr[th].made = NoClient

\* one step of get_model around a failing construction
CreateFailureStep ==
    \A th \in RThreads :
       LET c == rthr[th]  d == rthr'[th] IN
       /\ c.pc = "create" => d.pc \in {"create", "store", "raised"}
       /\ (c.pc = "create" /\ d.pc = "raised") =>
             /\ d.exc # NoExc
             /\ model_cache' = model_cache
             /\ c.key \notin DOMAIN model_cache'
       /\ c.pc = "raised" => model_cache' = model_cache
       /\ (c.pc = "test" /\ c.key \notin DOMAIN model_cache) =>
             d.pc = "create"

\* C17: a failing client construction propagates to get_model's caller and
\* leaves the cache unchanged: nothing is stored under the key, so a later
\* get_model for that key attempts construction again.
C17_CreateFailurePropagates == [][CreateFailureStep]_vars

\* a construction has failed while other clients are cached
C17_Witness ==
    /\ rthr[1].pc = "raised"
    /\ rthr[1].exc \in CreateErrors \cup {"ValueError:not_configured"}
    /\ rthr[1].key \notin DOMAIN model_cache
    /\ model_cache # EmptyCache


\* ---- RAGPipeline.retrieve
RetOut == rag_call.out

\* the namespaces of a call in iteration order: position of a name
NsPosition(name) ==
    CHOOSE i \in 1..Len(rag_call.index) : rag_call.index[i].name = name

\* namespace iteration order, then index order within a namespace
MergeBefore(a, b) ==
    \/ NsPosition(a.ns) < NsPosition(b.ns)
    \/ a.ns = b.ns /\ a.idx < b.idx

\* a ranks ahead of b in the merged, stably sorted list
RanksAhead(a, b) ==
    a.score > b.score \/ (a.score = b.score /\ MergeBefore(a, b))

\* the k the caller asked for; the configured default when none was given
CallerK == IF rag_call.k = <<>> THEN TOP_K_RETRIEVAL ELSE rag_call.k[1]

\* every namespace's surviving results
Survivors ==
    LET all == collect(rag_call.index, py_or(rag_call.k, TOP_K_RETRIEVAL),
                       py_or(rag_call.threshold, SIMILARITY_THRESHOLD))
    IN {all[i] : i \in 1..Len(all)}

MergeContract ==
    /\ Len(RetOut) <= CallerK
    /\ Len(RetOut) = IF Cardinality(Survivors) < CallerK
                     THEN Cardinality(Survivors) ELSE CallerK
    /\ \A i \in 1..Len(RetOut) : RetOut[i] \in Survivors
    /\ \A i, j \in 1..Len(RetOut) : i < j => RanksAhead(RetOut[i], RetOut[j])
    /\ \A s \in Survivors :
          (\A i \in 1..Len(RetOut) : RetOut[i] # s) =>
             \A i \in 1..Len(RetOut) : RanksAhead(RetOut[i], s)

\* C18: retrieve returns the first k elements of the concatenation of every
\* namespace's surviving results (namespace order, index order within a
\* namespace) stably sorted by descending score: at most k results, scores
\* non-increasing, equal scores in namespace-then-index order.
C18_MergedTopK == rag_call.called => MergeContract

FailingNames ==
    {rag_call.index[i].name :
        i \in {j \in 1..Len(rag_call.index) : rag_call.index[j].fails # NoExc}}

\* C19: when the search of a namespace raises, retrieve does not raise, and
\* its output equals the output of the same call with the failing
\* namespaces removed from the list.
C19_FailingNamespaceSkipped ==
    (rag_call.called /\ FailingNames # {}) =>
       /\ ~rag_call.raised
       /\ RetOut = retrieve(SelectSeq(rag_call.index,
                                      LAMBDA n : n.fails = NoExc),
                            rag_call.k, rag_call.threshold)

\* a failing namespace precedes a healthy one whose results are returned
C19_Witness ==
    /\ rag_call.called
    /\ Len(rag_call.index) >= 2
    /\ rag_call.index[1].fails # NoExc
    /\ RetOut # <<>>

\* C20: no result returned by retrieve has a similarity score below the
\* score threshold the caller passed.
C20_NoneBelowThreshold ==
    (rag_call.called /\ rag_call.threshold # <<>>) =>
       \A i \in 1..Len(RetOut) : RetOut[i].score >= rag_call.threshold[1]

\* a document below the passed threshold was in the index, others returned
C20_Witness ==
    /\ rag_call.called
    /\ rag_call.threshold \in {<<5>>, <<7>>, <<9>>}
    /\ \E i \in 1..Len(rag_call.index) :
          \E j \in 1..Len(rag_call.index[i].scores) :
             rag_call.index[i].scores[j] < rag_call.threshold[1]
    /\ RetOut # <<>>


\* C29: the client get_model returns is configured with the temperature and
\* max_tokens passed in that call, also when the key is already cached from
\* a call with other parameters.
C29_ClientHasCallParams ==
    \A th \in RouterCalls :
       rthr[th].pc = "returned" => rthr[th].ret.params = rthr[th].params

\* the results retrieve would return were the caller's k and threshold used
\* as given: every stored document of a healthy namespace is a candidate with
\* its real score
StoredResults(k) ==
    LET RECURSIVE stored(_)
        stored(index) ==
           IF index = <<>> THEN <<>>
           ELSE (IF Head(index).fails # NoExc THEN <<>>
                 ELSE LET top == Take(Head(index).scores, k) IN
                      [i \in 1..Len(top) |->
                          [ns |-> Head(index).name, idx |-> i,
                           score |-> top[i]]])
                \o stored(Tail(index))
    IN stored(rag_call.index)

\* C30: retrieve uses the caller's k and score_threshold whenever they are
\* supplied, including 0: a supplied threshold of 0.0 admits every result
\* with its real score, and a supplied k of 0 returns nothing.
C30_SuppliedZeroIsUsed ==
    rag_call.called =>
       /\ rag_call.k = <<0>> => RetOut = <<>>
       /\ (rag_call.threshold = <<0>> /\ rag_call.k \notin {<<>>, <<0>>}) =>
             RetOut = Take(sort_desc(StoredResults(rag_call.k[1])),
                           rag_call.k[1])


\* ---- sessions and the tokens runs check
\* C27: cancel_session(id) reaches the run executing for session id: for a
\* context built with session_id = id and no explicit token, once the
\* session, registered after the context was built, has been cancelled, the
\* token run / stream check (context.cancellation_token) reads cancelled.
C27_CancelSessionReachesRun ==
    \A sid \in SessionIds :
       ( /\ mode # "none" /\ ctx_own /\ ctx_session = sid
         /\ sid \in DOMAIN active_sessions
         /\ active_sessions[sid] > ctx_token
         /\ is_cancelled(cancelled[active_sessions[sid]]) )
       => is_cancelled(cancelled[ctx_token])

\* a completed cancel_session cancels every token issued for the id
CancelCoversIssued ==
    \A th \in Threads :
       (thr[th].pc = "cancel_lookup" /\ thr'[th].pc = "returned") =>
          \A t \in issued[thr[th].sid] : is_cancelled(cancelled'[t])

\* C28: after cancel_session(id), every token register_session(id) has
\* returned since the last cleanup_session(id) is cancelled, also when
\* register_session(id) was called more than once for the id.
C28_CancelReachesEveryIssuedToken == [][CancelCoversIssued]_vars


\* ---- ToolRegistry permissions
\* the allow-list of a tool; empty for a tool with no entry
AllowList(tool) == dict_get(permissions, tool, <<>>)

\* C22 (as stated): check_permission(tool, user) is true exactly when the
\* tool's allow-list is empty or contains user.
C22_EmptyAllowListUnrestricted ==
    tool_last.op = "check" =>
       tool_last.result =
          (AllowList(tool_last.tool) = <<>>
             \/ list_contains(AllowList(tool_last.tool), tool_last.user))

\* C22 (amended): check_permission(tool, user) is true exactly when no grant
\* was ever made on the tool or its allow-list contains user; an allow-list
\* emptied by revoke_permission permits nobody.
C22_NeverGrantedUnrestricted ==
    tool_last.op = "check" =>
       tool_last.result =
          (tool_last.tool \notin granted
             \/ list_contains(AllowList(tool_last.tool), tool_last.user))

\* a check on a tool whose allow-list was emptied by revokes
C22_Witness ==
    /\ tool_last.op = "check"
    /\ tool_last.tool \in granted
    /\ AllowList(tool_last.tool) = <<>>
    /\ ~tool_last.result

\* C23: before any grant on a tool check_permission(tool, user) is true;
\* after grant_permission(tool, user) it is true; after a following
\* revoke_permission(tool, user) it is false.
C23_GrantThenRevoke ==
    /\ \A tool \in ToolNames \ granted, user \in UserIds :
          permitted(permissions, tool, user)
    /\ tool_last.op = "grant" =>
          permitted(permissions, tool_last.tool, tool_last.user)
    /\ (tool_last.op = "revoke" /\ tool_last.tool \in granted) =>
          ~permitted(permissions, tool_last.tool, tool_last.user)

\* the last granted user of a tool has just been revoked
C23_Witness ==
    /\ tool_last.op = "revoke"
    /\ tool_last.tool \in granted
    /\ AllowList(tool_last.tool) = <<>>


\* ---- _prepare_input
\* C21: whenever retrieval is enabled and _prepare_input calls retrieve, the
\* raw results are stored in context.metadata["rag_results"] whether the
\* list is empty or not; the context block is prepended to the message only
\* when the list is non-empty.
C21_RagResultsAlwaysRecorded ==
    (prep.called /\ prep.retrieve_called) =>
       /\ "rag_results" \in prep.metadata
       /\ prep.rag_results = prep.results
       /\ prep.prepended <=> prep.results # <<>>


\* ---- the result of run
\* C24: when the reasoning loop stops because max_iterations is reached, run
\* returns a result that carries a failure reason; it is not returned as an
\* ordinary success = true result.
C24_IterationLimitIsFailure ==
    (run_out.called /\ run_out.stopped = "max_iterations") =>
       /\ ~run_out.success
       /\ run_out.error # NoExc

\* C25: for every successful run, metadata.tools_used holds the name of
\* every tool the executor invoked during the run, in invocation order.
C25_ToolsUsedReported ==
    (run_out.called /\ run_out.success) =>
       run_out.tools_used = run_out.invoked


\* ---- ingestion
\* C26 (as stated): an error raised during ingestion (no parser, a parse
\* failure, a failure of the index add) propagates to the caller of
\* ingest_file / ingest_text.
C26_IngestErrorsPropagate ==
    ingest_out.failure # NoExc => ingest_out.raised = ingest_out.failure

\* C26 (amended): an error raised during ingestion does not leave
\* ingest_file / ingest_text; the call returns a result with success = False
\* that carries the error, and a result with success = True means no error.
C26_IngestErrorsAreData ==
    /\ ingest_out.failure # NoExc =>
          /\ ingest_out.raised = NoExc
          /\ ingest_out.returned /\ ~ingest_out.success
          /\ ingest_out.error = ingest_out.failure
    /\ (ingest_out.op # "none" /\ ingest_out.success) =>
          ingest_out.failure = NoExc

\* an index add failed for a file, after an earlier ingestion had succeeded
C26_Witness ==
    /\ ingest_out.op = "ingest_file"
    /\ ingest_out.failure \in AddErrors
    /\ ingest_out.returned /\ ~ingest_out.success
    /\ index_chunks # EmptyCache

====
